---- MODULE Spec2Model ----
(***************************************************************************)
(* The greeting command-line program of src/src/main.rs: one run of main() *)
(* on an argument list.  Strings are sequences of one-character strings,   *)
(* so that formatting, the clap lexer and JSON decoding work on characters.*)
(***************************************************************************)
EXTENDS Integers, Sequences, FiniteSets, TLC

\* Longest argument list, and longest free-text argument, that is explored.
MaxArgs == 3
MaxNameLen == 1

None == << >>
Some(x) == << x >>

(* Argument lists *)

\* Characters a free-text argument is made of: a plain letter and the two
\* characters that JSON string syntax treats specially.
NameChars == {"a", "\"", "\\"}

Names == UNION {[1..n -> NameChars] : n \in 0..MaxNameLen}

LongUser == <<"-", "-", "u", "s", "e", "r">>
ShortUser == <<"-", "u">>
LongJson == <<"-", "-", "j", "s", "o", "n">>
LongHelp == <<"-", "-", "h", "e", "l", "p">>
ShortHelp == <<"-", "h">>
LongBogus == <<"-", "-", "b", "o", "g", "u", "s">>
DashDash == <<"-", "-">>

\* --user=NAME, the value attached to the flag.
Attached(n) == LongUser \o <<"=">> \o n
AttachedArgs == {Attached(n) : n \in {x \in Names : Len(x) < MaxNameLen}}

World == <<"W", "o", "r", "l", "d">>

Flags == {LongUser, ShortUser, LongJson, LongHelp, ShortHelp, LongBogus, DashDash}

ArgPool == Flags \cup AttachedArgs \cup Names

ArgLists == UNION {[1..n -> ArgPool] : n \in 0..MaxArgs}

(* Args::parse(): the parser clap derives from struct Args *)

Drop(s, n) == SubSeq(s, n + 1, Len(s))

IsEscape(a) == a = DashDash
IsLong(a) == Len(a) > 2 /\ a[1] = "-" /\ a[2] = "-"
IsShort(a) == Len(a) >= 2 /\ a[1] = "-" /\ a[2] # "-"

\* Position of the first "=" of s, or 0.
RECURSIVE EqPos(_, _)
EqPos(s, i) == IF i > Len(s) THEN 0 ELSE IF s[i] = "=" THEN i ELSE EqPos(s, i + 1)

LongName(a) ==
    LET r == Drop(a, 2) IN
    IF EqPos(r, 1) = 0 THEN r ELSE SubSeq(r, 1, EqPos(r, 1) - 1)

\* The value attached with "=", as an option: None when there is no "=".
LongValue(a) ==
    LET r == Drop(a, 2) IN
    IF EqPos(r, 1) = 0 THEN None ELSE Some(Drop(r, EqPos(r, 1)))

\* The matcher while the argument list is being read.  user: the values
\* stored for  user  (absent: None); json: whether  json  is stored; pending:
\* the option waiting for its value and the values it got so far; opt: the
\* previous argument was an option still expecting a value; trailing: "--"
\* was seen.
EmptyMatcher ==
    [user |-> None, json |-> FALSE, pending |-> None, opt |-> FALSE,
     trailing |-> FALSE]

Going(m) == [kind |-> "going", m |-> m]
Failed(e) == [kind |-> "error", err |-> e]
Help == [kind |-> "help"]

\* user takes exactly one value and may be given once.
ReactUser(m, vals) ==
    IF Len(vals) = 0 THEN Failed("InvalidValue")
    ELSE IF m.user # None THEN Failed("ArgumentConflict")
    ELSE Going([m EXCEPT !.user = Some(vals[1]), !.opt = FALSE])


\* Mutant: an option left without a value is dropped, so its default applies.
ResolvePending_DropsEmpty(m) ==
    IF m.pending = None \/ m.pending[1] = << >> THEN Going([m EXCEPT !.pending = None])
    ELSE ReactUser([m EXCEPT !.pending = None], m.pending[1])

\* The option still waiting for its value is stored before anything else is.
ResolvePending(m) ==
    IF m.pending = None THEN Going(m)
    ELSE ReactUser([m EXCEPT !.pending = None], m.pending[1])


\* Mutant: --json is accepted and not stored.
ReactJson_NotStored(m) ==
    LET r == ResolvePending(m) IN
    IF r.kind # "going" THEN r ELSE Going([r.m EXCEPT !.opt = FALSE])

ReactJson(m) ==
    LET r == ResolvePending(m) IN
    IF r.kind # "going" THEN r
    ELSE IF r.m.json THEN Failed("ArgumentConflict")
    ELSE Going([r.m EXCEPT !.json = TRUE, !.opt = FALSE])


\* Mutant: the help flag is noted and reading goes on.
ReactHelp_Continues(m) == ResolvePending(m)

ReactHelp(m) ==
    LET r == ResolvePending(m) IN
    IF r.kind # "going" THEN r ELSE Help

\* --user / -u, with the value attached to the argument or still to come.
ParseOptValue(m, attached) ==
    LET r == ResolvePending(m) IN
    IF r.kind # "going" THEN r
    ELSE IF attached # None THEN ReactUser(r.m, attached)
    ELSE Going([r.m EXCEPT !.pending = Some(<< >>), !.opt = TRUE])


\* Mutant: a long flag the command does not know is skipped.
ParseLongArg_SkipsUnknown(m, a) ==
    IF LongName(a) = Drop(LongUser, 2) THEN ParseOptValue(m, LongValue(a))
    ELSE IF LongName(a) = Drop(LongJson, 2) THEN ReactJson(m)
    ELSE IF LongName(a) = Drop(LongHelp, 2) THEN ReactHelp(m)
    ELSE Going(m)

ParseLongArg(m, a) ==
    IF LongName(a) = Drop(LongUser, 2) THEN ParseOptValue(m, LongValue(a))
    ELSE IF LongName(a) = Drop(LongJson, 2) THEN
        IF LongValue(a) # None THEN Failed("TooManyValues") ELSE ReactJson(m)
    ELSE IF LongName(a) = Drop(LongHelp, 2) THEN
        IF LongValue(a) # None THEN Failed("TooManyValues") ELSE ReactHelp(m)
    ELSE Failed("UnknownArgument")

\* The flags of one short argument, left to right; what follows -u is its value.
RECURSIVE ParseShortArg(_, _)
ParseShortArg(m, flags) ==
    IF flags = << >> THEN Going(m)
    ELSE IF Head(flags) = "u" THEN
        LET rest == Tail(flags) IN
        ParseOptValue(m, IF rest = << >> THEN None
                         ELSE IF Head(rest) = "=" THEN Some(Tail(rest))
                         ELSE Some(rest))
    ELSE IF Head(flags) = "h" THEN ReactHelp(m)
    ELSE Failed("UnknownArgument")


\* Mutant: storing the value of an option starts the flags afresh.
ParseValue_ForgetsJson(m, a) ==
    IF ~m.trailing /\ m.opt
    THEN Going([m EXCEPT !.pending = Some(Append(m.pending[1], a)), !.opt = FALSE,
                         !.json = FALSE])
    ELSE Failed("UnknownArgument")

\* An argument that is no flag: the value of the option before it, or a
\* positional argument, of which the command has none.
ParseValue(m, a) ==
    IF ~m.trailing /\ m.opt
    THEN Going([m EXCEPT !.pending = Some(Append(m.pending[1], a)), !.opt = FALSE])
    ELSE Failed("UnknownArgument")

ParseArg(m, a) ==
    IF m.trailing THEN ParseValue(m, a)
    ELSE IF IsEscape(a) THEN Going([m EXCEPT !.trailing = TRUE])
    ELSE IF IsLong(a) THEN ParseLongArg(m, a)
    ELSE IF IsShort(a) THEN ParseShortArg(m, Drop(a, 1))
    ELSE ParseValue(m, a)


\* Mutant: the default name in lower case.
Finish_WrongDefault(m) ==
    LET r == ResolvePending(m) IN
    IF r.kind # "going" THEN r
    ELSE [kind |-> "ok",
          args |-> [user |-> IF r.m.user = None THEN <<"w", "o", "r", "l", "d">>
                             ELSE r.m.user[1],
                    json |-> r.m.json]]

\* End of the argument list: store what is pending, then apply the defaults.
Finish(m) ==
    LET r == ResolvePending(m) IN
    IF r.kind # "going" THEN r
    ELSE [kind |-> "ok",
          args |-> [user |-> IF r.m.user = None THEN World ELSE r.m.user[1],
                    json |-> r.m.json]]

RECURSIVE GetMatches(_, _, _)
GetMatches(av, i, m) ==
    IF i > Len(av) THEN Finish(m)
    ELSE LET r == ParseArg(m, av[i]) IN
         IF r.kind # "going" THEN r ELSE GetMatches(av, i + 1, r.m)

ArgsParse(av) == GetMatches(av, 1, EmptyMatcher)

(* Output *)

HelloPrefix == <<"H", "e", "l", "l", "o", ",", " ">>
JsonPrefix ==
    <<"{", "\"", "m", "e", "s", "s", "a", "g", "e", "\"", ":", " ", "\"">>
JsonSuffix == <<"\"", "}">>


\* Mutant: the greeting without its comma.
FormatMessage_NoComma(user) == <<"H", "e", "l", "l", "o", " ">> \o user \o <<"!">>

\* format!("Hello, {}!", user)
FormatMessage(user) == HelloPrefix \o user \o <<"!">>

\* format!("{{\"message\": \"{}\"}}", self.message)
to_json(out) == JsonPrefix \o out.message \o JsonSuffix

to_plain_text(out) == out.message

\* What clap writes: the help text on standard output, a diagnostic that
\* names the error on standard error.
HelpText == <<"Usage: greeting [OPTIONS]">>
ErrorText(e) == <<"error: ", e>>

(* One run of main() *)

\* argv: the arguments after the program name.  pc: where main() stands.
\* args, json_output, output: the locals of main(), None until bound.
\* stdout, stderr: what has been written to each stream, one element for
\* each write (a println! line, clap's help text, clap's diagnostic).
\* exit_code: the exit status, None while the process runs.
VARIABLES argv, pc, args, json_output, output, stdout, stderr, exit_code

vars == <<argv, pc, args, json_output, output, stdout, stderr, exit_code>>

Init ==
    /\ argv \in ArgLists
    /\ pc = "start"
    /\ args = None
    /\ json_output = None
    /\ output = None
    /\ stdout = << >>
    /\ stderr = << >>
    /\ exit_code = None

\* let args = Args::parse();  -- the parse succeeded
ParseOk ==
    /\ pc = "start"
    /\ ArgsParse(argv).kind = "ok"
    /\ args' = Some(ArgsParse(argv).args)
    /\ pc' = "parsed"
    /\ UNCHANGED <<argv, json_output, output, stdout, stderr, exit_code>>

\* Args::parse() on a help request: the help text, and exit(0)
ParseHelp ==
    /\ pc = "start"
    /\ ArgsParse(argv).kind = "help"
    /\ stdout' = Append(stdout, HelpText)
    /\ exit_code' = Some(0)
    /\ pc' = "exited"
    /\ UNCHANGED <<argv, args, json_output, output, stderr>>


\* Mutant: a parse error is reported and the run goes on with the defaults.
ParseError_FallsThrough ==
    /\ pc = "start"
    /\ ArgsParse(argv).kind = "error"
    /\ stderr' = Append(stderr, ErrorText(ArgsParse(argv).err))
    /\ args' = Some([user |-> World, json |-> FALSE])
    /\ pc' = "parsed"
    /\ UNCHANGED <<argv, json_output, output, stdout, exit_code>>

\* Args::parse() on an error: the diagnostic, and exit(2)
ParseError ==
    /\ pc = "start"
    /\ ArgsParse(argv).kind = "error"
    /\ stderr' = Append(stderr, ErrorText(ArgsParse(argv).err))
    /\ exit_code' = Some(2)
    /\ pc' = "exited"
    /\ UNCHANGED <<argv, args, json_output, output, stdout>>

\* let json_output = args.json;
BindJson ==
    /\ pc = "parsed"
    /\ json_output' = Some(args[1].json)
    /\ pc' = "bound"
    /\ UNCHANGED <<argv, args, output, stdout, stderr, exit_code>>

\* let output = Output { message: format!("Hello, {}!", args.user) };
Format ==
    /\ pc = "bound"
    /\ output' = Some([message |-> FormatMessage(args[1].user)])
    /\ pc' = "formatted"
    /\ UNCHANGED <<argv, args, json_output, stdout, stderr, exit_code>>

\* println!("{}", output.to_json());
PrintJson ==
    /\ pc = "formatted"
    /\ json_output[1]
    /\ stdout' = Append(stdout, to_json(output[1]))
    /\ pc' = "printed"
    /\ UNCHANGED <<argv, args, json_output, output, stderr, exit_code>>

\* println!("{}", output.to_plain_text());
PrintPlain ==
    /\ pc = "formatted"
    /\ ~json_output[1]
    /\ stdout' = Append(stdout, to_plain_text(output[1]))
    /\ pc' = "printed"
    /\ UNCHANGED <<argv, args, json_output, output, stderr, exit_code>>

\* main returns
Exit ==
    /\ pc = "printed"
    /\ exit_code' = Some(0)
    /\ pc' = "exited"
    /\ UNCHANGED <<argv, args, json_output, output, stdout, stderr>>

Next ==
    \/ ParseOk
    \/ ParseHelp
    \/ ParseError
    \/ BindJson
    \/ Format
    \/ PrintJson
    \/ PrintPlain
    \/ Exit

Spec == Init /\ [][Next]_vars

\* The process is scheduled until it exits.
FairSpec == Spec /\ WF_vars(Next)

(* Reading the run's result *)

Range(s) == {s[i] : i \in DOMAIN s}

IsPrefix(p, s) == Len(p) <= Len(s) /\ SubSeq(s, 1, Len(p)) = p

BeginsWithHyphen(a) == a # << >> /\ a[1] = "-"

Exited == pc = "exited"

\* A line of standard output that is a greeting, plain or JSON.
GreetingLine(l) == IsPrefix(HelloPrefix, l) \/ IsPrefix(JsonPrefix, l)

GreetingPrinted == \E i \in DOMAIN stdout : GreetingLine(stdout[i])

FailedRun == Exited /\ exit_code # Some(0) /\ stderr # << >>

\* The first position of av that holds one of the arguments in S, or 0.
RECURSIVE FirstOf(_, _, _)
FirstOf(av, S, i) ==
    IF i > Len(av) THEN 0 ELSE IF av[i] \in S THEN i ELSE FirstOf(av, S, i + 1)

HelpFlags == {LongHelp, ShortHelp}

\* Some help flag stands before position i of av.
HelpBefore(av, i) == \E j \in 1..(i - 1) : av[j] \in HelpFlags

\* The command line of the usage text, [--user|-u <NAME>] [--json]: each
\* option at most once, NAME a separate argument that does not begin with
\* a hyphen, or attached as --user=NAME.
RECURSIVE OptionsFrom(_, _, _, _)
OptionsFrom(av, i, seenUser, seenJson) ==
    IF i > Len(av) THEN TRUE
    ELSE IF av[i] = LongJson THEN
        ~seenJson /\ OptionsFrom(av, i + 1, seenUser, TRUE)
    ELSE IF av[i] \in {LongUser, ShortUser} THEN
        /\ ~seenUser
        /\ i + 1 <= Len(av)
        /\ ~BeginsWithHyphen(av[i + 1])
        /\ OptionsFrom(av, i + 2, TRUE, seenJson)
    ELSE IF IsPrefix(Attached(<< >>), av[i]) THEN
        ~seenUser /\ OptionsFrom(av, i + 1, TRUE, seenJson)
    ELSE FALSE

OptionsOnly(av) == OptionsFrom(av, 1, FALSE, FALSE)

\* The options may be closed by a final "--".
WellFormed(av) ==
    \/ OptionsOnly(av)
    \/ av # << >> /\ av[Len(av)] = DashDash /\ OptionsOnly(SubSeq(av, 1, Len(av) - 1))

\* The name an argument list supplies: the argument after the first
\* --user / -u, or what is attached to the first --user=; World without one.
RECURSIVE SuppliedName(_, _)
SuppliedName(av, i) ==
    IF i > Len(av) THEN World
    ELSE IF av[i] \in {LongUser, ShortUser} /\ i < Len(av) THEN av[i + 1]
    ELSE IF IsPrefix(Attached(<< >>), av[i]) THEN Drop(av[i], Len(Attached(<< >>)))
    ELSE SuppliedName(av, i + 1)

\* The parser accepts exactly the well-formed argument lists.
ParserAcceptsWellFormed == (ArgsParse(argv).kind = "ok") <=> WellFormed(argv)

(* JSON text, as a JSON reader takes it: an object whose members are        *)
(* strings.  A string ends at the first unescaped quote; a backslash must   *)
(* start one of the two-character escapes.                                  *)

Undecodable == [ok |-> FALSE, members |-> << >>]

RECURSIVE SkipWs(_, _)
SkipWs(s, i) == IF i <= Len(s) /\ s[i] = " " THEN SkipWs(s, i + 1) ELSE i

Unescape(c) ==
    CASE c = "\"" -> <<"\"">>
      [] c = "\\" -> <<"\\">>
      [] c = "/" -> <<"/">>
      [] c = "n" -> <<"\n">>
      [] c = "t" -> <<"\t">>
      [] c = "r" -> <<"\r">>
      [] c = "b" -> <<"<BS>">>
      [] c = "f" -> <<"\f">>
      [] OTHER -> << >>

\* The string whose opening quote stands before position i.
RECURSIVE DecodeString(_, _, _)
DecodeString(s, i, acc) ==
    IF i > Len(s) THEN [ok |-> FALSE, val |-> acc, next |-> i]
    ELSE IF s[i] = "\"" THEN [ok |-> TRUE, val |-> acc, next |-> i + 1]
    ELSE IF s[i] = "\\" THEN
        IF i + 1 > Len(s) \/ Unescape(s[i + 1]) = << >>
        THEN [ok |-> FALSE, val |-> acc, next |-> i]
        ELSE DecodeString(s, i + 2, acc \o Unescape(s[i + 1]))
    ELSE DecodeString(s, i + 1, Append(acc, s[i]))

At(s, i, c) == i <= Len(s) /\ s[i] = c

\* The members from position i on, a key's opening quote.
RECURSIVE DecodeMembers(_, _, _)
DecodeMembers(s, i, acc) ==
    IF ~At(s, i, "\"") THEN Undecodable
    ELSE LET k == DecodeString(s, i + 1, << >>)
             colon == SkipWs(s, k.next)
             open == SkipWs(s, colon + 1)
         IN
         IF ~k.ok \/ ~At(s, colon, ":") \/ ~At(s, open, "\"") THEN Undecodable
         ELSE LET v == DecodeString(s, open + 1, << >>)
                  sep == SkipWs(s, v.next)
                  got == Append(acc, <<k.val, v.val>>)
              IN
              IF ~v.ok THEN Undecodable
              ELSE IF At(s, sep, ",") THEN DecodeMembers(s, SkipWs(s, sep + 1), got)
              ELSE IF At(s, sep, "}") /\ SkipWs(s, sep + 1) > Len(s)
                   THEN [ok |-> TRUE, members |-> got]
              ELSE Undecodable

JsonDecode(s) ==
    LET open == SkipWs(s, 1)
        first == SkipWs(s, open + 1)
    IN
    IF ~At(s, open, "{") THEN Undecodable
    ELSE IF At(s, first, "}") THEN
        IF SkipWs(s, first + 1) > Len(s) THEN [ok |-> TRUE, members |-> << >>]
        ELSE Undecodable
    ELSE DecodeMembers(s, first, << >>)

MessageKey == <<"m", "e", "s", "s", "a", "g", "e">>

\* The object {"message": "Hello, n!"}, decoded.
GreetingObject(n) ==
    [ok |-> TRUE, members |-> << <<MessageKey, HelloPrefix \o n \o <<"!">> >> >>]

(* Claims *)

\* C1 (as claimed): for every string N, the output of --json --user N decodes
\* as JSON to an object with the one key message whose value is "Hello, N!".
\* Stated for the N the parser takes as the name, so that only the
\* formatting decides it.
C1_JsonOutputDecodes ==
    \A n \in Names :
        (argv = <<LongJson, LongUser, n>> /\ Exited)
            => /\ Len(stdout) = 1
               /\ JsonDecode(stdout[1]) = GreetingObject(n)

\* C2 (as claimed): for every string N, hyphen-led ones included, --user N and
\* -u N without --json print exactly the line Hello, N! and exit with 0.
C2_AnyStringGreeted ==
    \A n \in ArgPool :
        (argv \in {<<LongUser, n>>, <<ShortUser, n>>} /\ Exited)
            => stdout = <<HelloPrefix \o n \o <<"!">> >> /\ exit_code = Some(0)

\* C2 (amended): for every string N that does not begin with a hyphen, the
\* empty string included, --user N and -u N without --json print exactly the
\* line Hello, N! and exit with 0, nothing on standard error.
C2_PlainGreeting ==
    \A n \in ArgPool :
        (/\ argv \in {<<LongUser, n>>, <<ShortUser, n>>}
         /\ ~BeginsWithHyphen(n)
         /\ Exited)
            => /\ stdout = <<HelloPrefix \o n \o <<"!">> >>
               /\ exit_code = Some(0)
               /\ stderr = << >>

\* -u with the empty name has run and greeted.
C2_Witness ==
    argv = <<ShortUser, << >> >> /\ Exited /\ stdout = <<HelloPrefix \o <<"!">> >>

\* C3: without arguments the configuration is the defaults (World, false),
\* standard output is exactly the line Hello, World! and the exit status 0.
C3_NoArguments ==
    (argv = << >> /\ pc # "start")
        => /\ args = Some([user |-> <<"W", "o", "r", "l", "d">>, json |-> FALSE])
           /\ Exited =>
                /\ stdout = << <<"H", "e", "l", "l", "o", ",", " ",
                                "W", "o", "r", "l", "d", "!">> >>
                /\ stderr = << >>
                /\ exit_code = Some(0)

\* The run without arguments has ended with one line written.
C3_Witness == argv = << >> /\ Exited /\ Len(stdout) = 1

\* C4 (as claimed): an unrecognized flag anywhere in the argument list makes
\* the run end non-zero with a diagnostic and without a greeting.
C4_UnknownFlagAlwaysFails ==
    (LongBogus \in Range(argv) /\ Exited) => FailedRun /\ ~GreetingPrinted

\* C4 (amended): an unrecognized flag makes the run end without a greeting
\* line; it ends non-zero with a diagnostic on standard error unless a help
\* flag stands before the unrecognized flag.
C4_UnknownFlagFails ==
    (LongBogus \in Range(argv) /\ Exited)
        => /\ ~GreetingPrinted
           /\ ~HelpBefore(argv, FirstOf(argv, {LongBogus}, 1)) => FailedRun

\* An unrecognized flag after valid options has made the run fail.
C4_Witness == argv = <<LongUser, <<"a">>, LongBogus>> /\ FailedRun

\* C5 (as claimed): with --user or -u as the last argument the run fails:
\* a message on standard error, a non-zero exit status, no greeting, and no
\* configuration built from the default name.
C5_MissingValueAlwaysFails ==
    (argv # << >> /\ argv[Len(argv)] \in {LongUser, ShortUser} /\ Exited)
        => FailedRun /\ ~GreetingPrinted /\ args = None

\* C5 (amended): with --user or -u as the last argument no configuration is
\* built (the default name is never used) and no greeting is printed; the run
\* ends non-zero with a message on standard error unless a help flag stands
\* before that last argument.
C5_MissingValueFails ==
    (argv # << >> /\ argv[Len(argv)] \in {LongUser, ShortUser})
        => /\ args = None /\ output = None /\ ~GreetingPrinted
           /\ (Exited /\ ~HelpBefore(argv, Len(argv))) => FailedRun

\* --json -u has run and failed.
C5_Witness == argv = <<LongJson, ShortUser>> /\ FailedRun

\* C6 (as claimed): a run whose arguments are --help together with --user
\* and/or --json prints the usage text, exits with 0 and prints no greeting.
C6_HelpAlwaysWins ==
    (/\ LongHelp \in Range(argv)
     /\ Range(argv) \subseteq {LongHelp, LongUser, LongJson}
     /\ Exited)
        => stdout = <<HelpText>> /\ exit_code = Some(0) /\ ~GreetingPrinted

\* C6 (amended): a run whose arguments contain --help prints no greeting line;
\* it prints the usage text and exits with 0 when the arguments before the
\* first --help are well-formed options (--json, and --user or -u with a name
\* that does not begin with a hyphen, each at most once).
C6_HelpAfterOptions ==
    (LongHelp \in Range(argv) /\ Exited)
        => /\ ~GreetingPrinted
           /\ OptionsOnly(SubSeq(argv, 1, FirstOf(argv, {LongHelp}, 1) - 1))
                => stdout = <<HelpText>> /\ exit_code = Some(0) /\ stderr = << >>

\* --user a --help has printed the usage text.
C6_Witness == argv = <<LongUser, <<"a">>, LongHelp>> /\ Exited /\ stdout = <<HelpText>>

\* What holds of every state of a run, in the order parse, format, print, exit.
C8_StateOrder ==
    /\ pc = "start" => args = None /\ output = None /\ stdout = << >> /\ stderr = << >>
    /\ output # None => args # None /\ json_output # None
    /\ GreetingPrinted => output # None
    /\ Len(stdout) <= 1
    /\ exit_code # None <=> Exited
    /\ (Exited /\ WellFormed(argv))
          => Len(stdout) = 1 /\ GreetingLine(stdout[1]) /\ exit_code = Some(0)
    /\ ~WellFormed(argv) => args = None /\ output = None /\ ~GreetingPrinted
    /\ ~(GreetingPrinted /\ exit_code \notin {None, Some(0)})
    /\ pc = "start" => ArgsParse(argv).kind \in {"ok", "help", "error"}
    /\ pc \notin {"start", "exited"}
          => ENABLED (BindJson \/ Format \/ PrintJson \/ PrintPlain \/ Exit)

\* The steps a run takes, one after the other.
C8_StepOrder ==
    <<pc, pc'>> \in {<<"start", "parsed">>, <<"start", "exited">>,
                     <<"parsed", "bound">>, <<"bound", "formatted">>,
                     <<"formatted", "printed">>, <<"printed", "exited">>}

\* C8: every run ends, and goes parse, format, print, exit: the parse is the
\* first step and the only one; a greeting is formatted and written only after
\* the parse succeeded; a run whose parse succeeded writes exactly one line
\* and exits with 0; after a parse failure or a help request nothing is
\* formatted or greeted; a greeting and a non-zero exit status never meet.
\* That a run ends is stated by its steps: each one moves pc forward in the
\* order start, parsed, bound, formatted, printed, exited, and a run that has
\* not exited always has a next step (at start the parse has one of its three
\* outcomes, afterwards a step of main is enabled).
C8_RunOrder == [](C8_StateOrder) /\ [][C8_StepOrder]_vars

\* The same, as a property of the scheduled process.
Termination == <>Exited

\* A run has parsed, formatted, printed its greeting and exited with 0.
C8_Witness == Exited /\ GreetingPrinted /\ output # None /\ exit_code = Some(0)

\* What the configuration is, once there is one.
C9_ConfigurationValue ==
    /\ pc \in {"parsed", "bound", "formatted", "printed"} => args # None
    /\ args # None =>
          args = Some([user |-> SuppliedName(argv, 1), json |-> LongJson \in Range(argv)])
    /\ json_output # None => json_output = Some(LongJson \in Range(argv))

\* C9: after a successful parse, user_name is the supplied name when the name
\* option was given and World otherwise, json_output is true exactly when
\* --json is among the arguments, and no later step changes the configuration.
C9_Configuration ==
    [](C9_ConfigurationValue) /\ [][args # None => args' = args]_vars

\* A configuration with a supplied name and --json has been formatted and printed.
C9_Witness ==
    /\ pc = "printed"
    /\ argv = <<ShortUser, <<"a">>, LongJson>>
    /\ args = Some([user |-> <<"a">>, json |-> TRUE])

\* {"message": "<text>"}
Wrapped(text) ==
    <<"{", "\"", "m", "e", "s", "s", "a", "g", "e", "\"", ":", " ", "\"">>
        \o text \o <<"\"", "}">>

\* C10 (as claimed): for every name N, --user N --json and --json --user N
\* print the same line, the plain greeting of N wrapped as {"message": "..."}.
C10_AnyNameWrapped ==
    \A n \in ArgPool :
        (argv \in {<<LongUser, n, LongJson>>, <<LongJson, LongUser, n>>} /\ Exited)
            => stdout = <<Wrapped(HelloPrefix \o n \o <<"!">>)>>

\* C10 (amended): for every name N that does not begin with a hyphen,
\* --user N --json and --json --user N print the same line, the plain
\* greeting of N wrapped as {"message": "..."}, the greeting text unchanged.
C10_FlagOrder ==
    \A n \in ArgPool :
        (/\ argv \in {<<LongUser, n, LongJson>>, <<LongJson, LongUser, n>>}
         /\ ~BeginsWithHyphen(n)
         /\ Exited)
            => stdout = <<Wrapped(HelloPrefix \o n \o <<"!">>)>>

\* --json before --user a has printed the wrapped greeting.
C10_Witness == argv = <<LongJson, LongUser, <<"a">>>> /\ Exited /\ Len(stdout) = 1

====
